---- MODULE Spec2Model ----
(***************************************************************************)
(* Business Ideas Tracker: the ownership / collaboration access control    *)
(* and the filtered listing of rjeremym/is-403-final-project.              *)
(*                                                                         *)
(* The repository holds two implementations of the same application:       *)
(*   variant "A"  src/unnamed/part_000  (promise chains, text marketing)   *)
(*   variant "B"  src/index.js          (async/await, array marketing)     *)
(* They use different column types for marketingstrategy, so a deployment  *)
(* runs one of them: the variant is chosen in Init and never changes.      *)
(*                                                                         *)
(* A handler suspends at every database query it awaits; each query is one *)
(* atomic step of the model, and the steps of requests in flight           *)
(* interleave freely.  The synchronous code before the first query and     *)
(* after the last one touches no shared state and is folded into them.     *)
(***************************************************************************)
EXTENDS Integers, Sequences, FiniteSets, TLC

\* ------------------------------------------------------------------ bounds
NumUsers == 2       \* rows of the security table (registered users)
MaxIdeas == 1       \* idea rows ever inserted (serial ideaid)
MaxCollabs == 2     \* collaboration rows ever inserted (serial collaborationid)
NumReqs == 2        \* requests in flight at the same time
ListIdeas == 2      \* idea rows of the stores the listing is evaluated on
NumClients == 1     \* browsers (session cookies)

Users == 1..NumUsers
Reqs == 1..NumReqs
Clients == 1..NumClients

\* ------------------------------------------------------------ text values
\* A text is a sequence of one-character strings; "" is the empty sequence.
\* Null is SQL NULL in a text column, NullNum SQL NULL in a numeric column.
Null == <<"NULL">>
NullNum == -1

Lower(c) == CASE c = "A" -> "a" [] c = "B" -> "b" [] OTHER -> c

DigitVal(c) ==
  CASE c = "0" -> 0 [] c = "1" -> 1 [] c = "2" -> 2 [] c = "3" -> 3
    [] c = "4" -> 4 [] c = "5" -> 5 [] c = "6" -> 6 [] c = "7" -> 7
    [] c = "8" -> 8 [] c = "9" -> 9

RECURSIVE ParseDigits(_, _)
ParseDigits(s, acc) ==
  IF s = <<>> THEN acc ELSE ParseDigits(Tail(s), 10 * acc + DigitVal(Head(s)))

\* parseFloat / parseInt on a string of decimal digits (the inputs drawn here)
parseFloat(s) == ParseDigits(s, 0)
parseInt(s) == ParseDigits(s, 0)

\* JavaScript truthiness of a string: the empty string is falsy
Truthy(s) == s # <<>>

\* x || null for a text field
OrNull(s) == IF Truthy(s) THEN s ELSE Null

\* x ? parseFloat(x) : null   and   x ? parseInt(x) : null
FloatOrNull(s) == IF Truthy(s) THEN parseFloat(s) ELSE NullNum
IntOrNull(s) == IF Truthy(s) THEN parseInt(s) ELSE NullNum

\* SQL LIKE: % matches any run of characters, _ any one character;
\* ILIKE and LOWER(..) LIKE LOWER(..) compare letters without case.
RECURSIVE LikeMatch(_, _)
LikeMatch(p, s) ==
  IF p = <<>> THEN s = <<>>
  ELSE IF Head(p) = "%"
       THEN LikeMatch(Tail(p), s) \/ (s # <<>> /\ LikeMatch(p, Tail(s)))
       ELSE /\ s # <<>>
            /\ (Head(p) = "_" \/ Lower(Head(p)) = Lower(Head(s)))
            /\ LikeMatch(Tail(p), Tail(s))

\* column ILIKE '%' || search || '%'  (NULL never matches)
ILikeContains(col, search) ==
  col # Null /\ LikeMatch(<<"%">> \o search \o <<"%">>, col)

\* numeric column >= v, <= v (a NULL column never satisfies a comparison)
NumGE(col, v) == col # NullNum /\ col >= v
NumLE(col, v) == col # NullNum /\ col <= v

\* ---------------------------------------------------------- request bodies
\* The idea form posted to addIdea / editIdea (timeline carries no logic and
\* is left out).  Numeric fields arrive as strings of digits or empty.
Body(n, d, m, t, c, p) ==
  [ideaname |-> n, ideadescription |-> d, marketingstrategy |-> m,
   targetcustomer |-> t, estimatedcost |-> c, potential |-> p]

BodyLaundromat == Body(<<"A", "b">>, <<"d">>, <<"m">>, <<"c">>, <<"5">>, <<"7">>)
BodyCheap == Body(<<"b">>, <<"d">>, <<>>, <<>>, <<>>, <<>>)
BodyBare == Body(<<"a">>, <<"d">>, <<"m">>, <<>>, <<"9">>, <<"3">>)
BodyNoName == Body(<<>>, <<"d">>, <<"m">>, <<>>, <<"2">>, <<>>)

\* bodies posted by the requests of Spec, and bodies of the rows SpecList draws
Bodies == {BodyLaundromat, BodyCheap, BodyNoName}
ListBodies == {BodyLaundromat, BodyCheap, BodyBare}
NoBody == Body(<<>>, <<>>, <<>>, <<>>, <<>>, <<>>)

\* ---------------------------------------------------------- query strings
\* The filters of the listing, as named by GET /ideas; GET /view-ideas reads
\* ideaname, marketingstrategy, maxcost and potential, and ignores the rest.
Filter(n, m, t, lo, hi, p) ==
  [searchName |-> n, searchMarketing |-> m, searchCustomer |-> t,
   minCost |-> lo, maxCost |-> hi, minPotential |-> p]

NoFilter == Filter(<<>>, <<>>, <<>>, <<>>, <<>>, <<>>)

\* one filter applied alone
SingleFilters ==
  { Filter(<<"B">>, <<>>, <<>>, <<>>, <<>>, <<>>),
    Filter(<<>>, <<"m">>, <<>>, <<>>, <<>>, <<>>),
    Filter(<<>>, <<>>, <<"C">>, <<>>, <<>>, <<>>),
    Filter(<<>>, <<>>, <<>>, <<"3">>, <<>>, <<>>),
    Filter(<<>>, <<>>, <<>>, <<>>, <<"6">>, <<>>),
    Filter(<<>>, <<>>, <<>>, <<>>, <<>>, <<"5">>) }

FilterFields ==
  {"searchName", "searchMarketing", "searchCustomer", "minCost", "maxCost",
   "minPotential"}

\* the query string that carries the parameters of f and of g
Both(f, g) == [k \in FilterFields |-> IF f[k] # <<>> THEN f[k] ELSE g[k]]

Filters ==
  {NoFilter} \cup SingleFilters \cup
  {Both(f, g) : f \in SingleFilters, g \in SingleFilters}

\* ------------------------------------------------------- account forms
\* The form posted to login and to register / create-account.  email stands
\* for email, firstname and lastname, which the code treats alike.
Form(n, p, e) == [username |-> n, password |-> p, email |-> e]
NoForm == Form(<<>>, <<>>, <<>>)

\* two usernames that differ by case only, two passwords
Usernames == {<<"a">>, <<"A">>}
Passwords == {<<"p">>, <<"q">>}

\* login: the right and a wrong password for one name, the right password
\* for the name in the other case
LoginForms ==
  {Form(<<"a">>, <<"p">>, <<>>), Form(<<"a">>, <<"q">>, <<>>),
   Form(<<"A">>, <<"p">>, <<>>)}

\* registration: the two names, and a form with a required field left empty
RegisterForms ==
  {Form(<<"a">>, <<"p">>, <<"e">>), Form(<<"A">>, <<"p">>, <<"e">>),
   Form(<<"a">>, <<"p">>, <<>>)}

\* ------------------------------------------------------------------- state
VARIABLES
  variant,         \* "A" (src/unnamed/part_000) or "B" (src/index.js)
  ideas,           \* table idea_details: a set of rows
  collaborations,  \* table collaborations: a set of rows
  nextIdeaId,      \* serial of idea_details.ideaid
  nextCollabId,    \* serial of collaborations.collaborationid
  req,             \* per request slot: the handler's position and its locals
  security,        \* table security: a set of user rows
  nextUserId,      \* serial of security.userid
  session          \* the session store: per client (cookie), its session

vars ==
  <<variant, ideas, collaborations, nextIdeaId, nextCollabId, req, security,
    nextUserId, session>>
store == <<ideas, collaborations, nextIdeaId, nextCollabId>>
auth == <<security, nextUserId, session>>

\* ------------------------------------------------------------- table rows
\* newIdea of app.post("/addIdea")
NewIdeaA(id, u, b) ==
  [ideaid |-> id, userid |-> u,
   ideaname |-> b.ideaname, ideadescription |-> b.ideadescription,
   marketingstrategy |-> OrNull(b.marketingstrategy),
   targetcustomer |-> OrNull(b.targetcustomer),
   estimatedcost |-> FloatOrNull(b.estimatedcost),
   potential |-> IntOrNull(b.potential)]

\* marketingArray of index.js: null (the empty sequence here) or a one-element
\* array of the posted value
MarketingArray(m) == IF Truthy(m) THEN <<m>> ELSE <<>>

\* the row inserted by app.post('/add-idea'); the store casts the numeric
\* strings to numbers
NewIdeaB(id, u, b) ==
  [ideaid |-> id, userid |-> u,
   ideaname |-> b.ideaname, ideadescription |-> b.ideadescription,
   marketingstrategy |-> MarketingArray(b.marketingstrategy),
   targetcustomer |-> OrNull(b.targetcustomer),
   estimatedcost |-> FloatOrNull(b.estimatedcost),
   potential |-> IntOrNull(b.potential)]

\* (mutant) the update also writes the caller into userid
UpdatedIdeaA_writesCaller(row, u, b) == NewIdeaA(row.ideaid, u, b)

\* updatedIdea of app.post("/editIdea/:id"): every column but ideaid, userid
UpdatedIdeaA(row, u, b) == NewIdeaA(row.ideaid, row.userid, b)

\* the update of app.post('/edit-idea/:id')
UpdatedIdeaB(row, u, b) == NewIdeaB(row.ideaid, row.userid, b)

CollabRow(cid, id, u) == [collaborationid |-> cid, ideaid |-> id, userid |-> u]

\* ------------------------------------------------------------------ store
\* knex(table).where({...}).first(): the matching rows (empty: undefined)
IdeaRows(id) == {i \in ideas : i.ideaid = id}
CollabRows(id, u) == {c \in collaborations : c.ideaid = id /\ c.userid = u}
CollabById(cid) == {c \in collaborations : c.collaborationid = cid}
CollabsOf(id) == {c \in collaborations : c.ideaid = id}

\* idea.userid === userId on the row read (false when no row was read)
OwnerIs(id, u) == \E i \in IdeaRows(id) : i.userid = u

\* The schema of the collaborations table: (ideaid, userid) is unique, and
\* ideaid, userid reference idea_details, security.
UniqueViolation(id, u) == CollabRows(id, u) # {}

\* (mutant) the table has no foreign keys
ForeignKeyViolation_none(id, u) == FALSE

ForeignKeyViolation(id, u) ==
  IdeaRows(id) = {} \/ u \notin {s.userid : s \in security}
InsertFails(id, u) == UniqueViolation(id, u) \/ ForeignKeyViolation(id, u)

\* delete of an idea row: the store deletes the collaboration rows that
\* reference it with it (ON DELETE CASCADE)
CascadeDelete(id) == collaborations \ CollabsOf(id)

\* -------------------------------------------------------------- requests
\* a handler in flight: its route, the query it awaits and its locals
Running(op, pc, u, id, t, b, own) ==
  [op |-> op, pc |-> pc, uid |-> u, idea |-> id, target |-> t, body |-> b,
   filt |-> NoFilter, own |-> own, result |-> <<>>, last |-> "none",
   resp |-> "none", err |-> FALSE, client |-> 0, form |-> NoForm]

\* a handler that has responded: the step it responded from, the response,
\* and whether a catch branch logged an error; its locals are gone
Done(op, u, id, last, resp, err) ==
  [op |-> op, pc |-> "done", uid |-> u, idea |-> id, target |-> 0,
   body |-> NoBody, filt |-> NoFilter, own |-> FALSE, result |-> <<>>,
   last |-> last, resp |-> resp, err |-> err, client |-> 0, form |-> NoForm]

Idle == Done("idle", 0, 0, "none", "none", FALSE)

\* a request is accepted in the first slot in which no handler is running
Free(r) == req[r].pc = "done" /\ \A q \in 1..(r - 1) : req[q].pc # "done"

\* the handler of slot r sends its response: res.redirect / res.render
Respond(r, resp, err) ==
  [req EXCEPT ![r] = Done(@.op, @.uid, @.idea, @.pc, resp, err)]
Goto(r, pc) == [req EXCEPT ![r] = [@ EXCEPT !.pc = pc]]

\* ids a request can name: every id handed out so far and the next one
IdeaIds == 1..MaxIdeas
CollabIds == 1..MaxCollabs

\* a row of the security table
UserRow(id, f) ==
  [userid |-> id, username |-> f.username, passwordhash |-> f.password]

\* req.session: isLoggedIn and userId (undefined is FALSE and 0)
Session(l, u) == [isLoggedIn |-> l, userId |-> u]
NoSession == Session(FALSE, 0)

\* the accounts and the sessions that Spec and SpecList start from: every
\* user is registered and browser u holds the session of user u, so that a
\* request of user u is a request that passed the session check
AllRegistered ==
  /\ security = {UserRow(u, Form([k \in 1..u |-> "u"], <<"p">>, <<"e">>)) : u \in Users}
  /\ nextUserId = NumUsers + 1
  /\ session = [c \in Clients |->
                  IF c \in Users THEN Session(variant = "A", c) ELSE NoSession]

Init ==
  /\ variant \in {"A", "B"}
  /\ ideas = {}
  /\ collaborations = {}
  /\ nextIdeaId = 1
  /\ nextCollabId = 1
  /\ req = [r \in Reqs |-> Idle]
  /\ AllRegistered

\* ============================================================ variant A
\* !ideaname || !ideadescription
MissingRequired(b) == ~Truthy(b.ideaname) \/ ~Truthy(b.ideadescription)

\* POST /addIdea: validate, insert, redirect
A_addIdea(r, u, b) ==
  /\ variant = "A" /\ Free(r)
  /\ IF MissingRequired(b)
       THEN /\ req' = [req EXCEPT ![r] =
                 Done("addIdea", u, 0, "validate", "render:addIdea", FALSE)]
            /\ UNCHANGED store
       ELSE /\ nextIdeaId <= MaxIdeas
            /\ ideas' = ideas \cup {NewIdeaA(nextIdeaId, u, b)}
            /\ nextIdeaId' = nextIdeaId + 1
            /\ req' = [req EXCEPT ![r] =
                 Done("addIdea", u, nextIdeaId, "insert", "redirect:/ideas", FALSE)]
            /\ UNCHANGED <<collaborations, nextCollabId>>
  /\ UNCHANGED <<variant, auth, auth>>

\* !isOwner && !isCollaborator is the refusal of editIdea
MayEditA(own, isCollaborator) == own \/ isCollaborator

\* POST /editIdea/:id, up to the idea read
A_editIdea_idea(r, u, id, b) ==
  /\ variant = "A" /\ Free(r)
  /\ req' = [req EXCEPT ![r] =
       IF MissingRequired(b)
         THEN Done("editIdea", u, id, "validate", "redirect:/editIdea", FALSE)
         ELSE IF IdeaRows(id) = {}
           THEN Done("editIdea", u, id, "idea", "redirect:/ideas", FALSE)
           ELSE Running("editIdea", "collab", u, id, 0, b, OwnerIs(id, u))]
  /\ UNCHANGED <<variant, auth, store>>

\* the collaboration read and the permission check
A_editIdea_collab(r) ==
  /\ variant = "A" /\ req[r].op = "editIdea" /\ req[r].pc = "collab"
  /\ req' = IF MayEditA(req[r].own, CollabRows(req[r].idea, req[r].uid) # {})
              THEN Goto(r, "update")
              ELSE Respond(r, "redirect:/ideas", FALSE)
  /\ UNCHANGED <<variant, auth, store>>

\* the update of the idea row (no row matches when it was deleted meanwhile)
A_editIdea_update(r) ==
  /\ variant = "A" /\ req[r].op = "editIdea" /\ req[r].pc = "update"
  /\ ideas' = {IF i.ideaid = req[r].idea
                 THEN UpdatedIdeaA(i, req[r].uid, req[r].body) ELSE i : i \in ideas}
  /\ req' = Respond(r, "redirect:/ideas", FALSE)
  /\ UNCHANGED <<variant, auth, collaborations, nextIdeaId, nextCollabId>>

\* (mutant) the delete is allowed to whoever may view the idea
MayDeleteA_canView(id, u) == OwnerIs(id, u) \/ CollabRows(id, u) # {}

\* !idea || idea.userid !== userId is the refusal of deleteIdea
MayDeleteA(id, u) == OwnerIs(id, u)

\* POST /deleteIdea/:id: the ownership check
A_deleteIdea_idea(r, u, id) ==
  /\ variant = "A" /\ Free(r)
  /\ req' = [req EXCEPT ![r] =
       IF MayDeleteA(id, u)
         THEN Running("deleteIdea", "collabs", u, id, 0, NoBody, TRUE)
         ELSE Done("deleteIdea", u, id, "idea", "redirect:/ideas", FALSE)]
  /\ UNCHANGED <<variant, auth, store>>

\* delete all collaborations first
A_deleteIdea_collabs(r) ==
  /\ variant = "A" /\ req[r].op = "deleteIdea" /\ req[r].pc = "collabs"
  /\ collaborations' = collaborations \ CollabsOf(req[r].idea)
  /\ req' = Goto(r, "row")
  /\ UNCHANGED <<variant, auth, ideas, nextIdeaId, nextCollabId>>

\* (mutant) the delete matches no row
IdeasAfterDeleteA_noRow(id) == ideas

\* the rows left in idea_details by the delete of idea id
IdeasAfterDeleteA(id) == ideas \ IdeaRows(id)

\* then delete the idea
A_deleteIdea_row(r) ==
  /\ variant = "A" /\ req[r].op = "deleteIdea" /\ req[r].pc = "row"
  /\ ideas' = IdeasAfterDeleteA(req[r].idea)
  /\ collaborations' = CascadeDelete(req[r].idea)
  /\ req' = Respond(r, "redirect:/ideas", FALSE)
  /\ UNCHANGED <<variant, auth, nextIdeaId, nextCollabId>>

\* (mutant) collaborators are managed by whoever may view the idea
MayManageA_canView(id, u) == OwnerIs(id, u) \/ CollabRows(id, u) # {}

\* !idea || idea.userid !== userId is the refusal of addCollaborator and of
\* removeCollaborator
MayManageA(id, u) == OwnerIs(id, u)

\* POST /addCollaborator/:id: the ownership check
A_addCollaborator_idea(r, u, id, t) ==
  /\ variant = "A" /\ Free(r)
  /\ req' = [req EXCEPT ![r] =
       IF MayManageA(id, u)
         THEN Running("addCollaborator", "existing", u, id, t, NoBody, TRUE)
         ELSE Done("addCollaborator", u, id, "idea", "redirect:/editIdea", FALSE)]
  /\ UNCHANGED <<variant, auth, store>>

\* check if the collaboration already exists
A_addCollaborator_existing(r) ==
  /\ variant = "A" /\ req[r].op = "addCollaborator" /\ req[r].pc = "existing"
  /\ req' = IF CollabRows(req[r].idea, req[r].target) # {}
              THEN Respond(r, "redirect:/editIdea", FALSE)
              ELSE Goto(r, "insert")
  /\ UNCHANGED <<variant, auth, store>>

\* the insert; a constraint violation is caught, logged and redirected
A_addCollaborator_insert(r) ==
  /\ variant = "A" /\ req[r].op = "addCollaborator" /\ req[r].pc = "insert"
  /\ IF InsertFails(req[r].idea, req[r].target)
       THEN /\ req' = Respond(r, "redirect:/editIdea", TRUE)
            /\ UNCHANGED store
       ELSE /\ nextCollabId <= MaxCollabs
            /\ collaborations' = collaborations \cup
                 {CollabRow(nextCollabId, req[r].idea, req[r].target)}
            /\ nextCollabId' = nextCollabId + 1
            /\ req' = Respond(r, "redirect:/editIdea", FALSE)
            /\ UNCHANGED <<ideas, nextIdeaId>>
  /\ UNCHANGED <<variant, auth, auth>>

\* POST /removeCollaborator/:collaborationId: the collaboration read
A_removeCollaborator_collab(r, u, cid) ==
  /\ variant = "A" /\ Free(r)
  /\ req' = [req EXCEPT ![r] =
       IF CollabById(cid) = {}
         THEN Done("removeCollaborator", u, 0, "collab", "redirect:/ideas", FALSE)
         ELSE Running("removeCollaborator", "idea", u, (CHOOSE c \in CollabById(cid) : TRUE).ideaid, cid, NoBody, FALSE)]
  /\ UNCHANGED <<variant, auth, store>>

\* the ownership check on the idea of the collaboration
A_removeCollaborator_idea(r) ==
  /\ variant = "A" /\ req[r].op = "removeCollaborator" /\ req[r].pc = "idea"
  /\ req' = IF MayManageA(req[r].idea, req[r].uid)
              THEN [req EXCEPT ![r] = [@ EXCEPT !.pc = "del", !.own = TRUE]]
              ELSE Respond(r, "redirect:/editIdea", FALSE)
  /\ UNCHANGED <<variant, auth, store>>

\* remove the collaboration
A_removeCollaborator_del(r) ==
  /\ variant = "A" /\ req[r].op = "removeCollaborator" /\ req[r].pc = "del"
  /\ collaborations' = collaborations \ CollabById(req[r].target)
  /\ req' = Respond(r, "redirect:/editIdea", FALSE)
  /\ UNCHANGED <<variant, auth, ideas, nextIdeaId, nextCollabId>>

\* (mutant) the delete is keyed by ideaid alone
LeaveRows_wholeIdea(id, u) == CollabsOf(id)

\* the rows deleted by leaveCollaboration: where({ideaid, userid})
LeaveRows(id, u) == CollabRows(id, u)

\* POST /leaveCollaboration/:id
A_leaveCollaboration(r, u, id) ==
  /\ variant = "A" /\ Free(r)
  /\ collaborations' = collaborations \ LeaveRows(id, u)
  /\ req' = [req EXCEPT ![r] =
       Done("leaveCollaboration", u, id, "del", "redirect:/ideas", FALSE)]
  /\ UNCHANGED <<variant, auth, ideas, nextIdeaId, nextCollabId>>

\* ============================================================ variant B
\* POST /add-idea: insert, redirect (no field is validated)
B_add_idea(r, u, b) ==
  /\ variant = "B" /\ Free(r)
  /\ nextIdeaId <= MaxIdeas
  /\ ideas' = ideas \cup {NewIdeaB(nextIdeaId, u, b)}
  /\ nextIdeaId' = nextIdeaId + 1
  /\ req' = [req EXCEPT ![r] =
       Done("addIdea", u, nextIdeaId, "insert", "redirect:/view-ideas", FALSE)]
  /\ UNCHANGED <<variant, auth, collaborations, nextCollabId>>

\* !isOwner && !isCollaborator is the refusal of edit-idea
MayEditB(own, isCollaborator) == own \/ isCollaborator

\* POST /edit-idea/:id, the idea read
B_edit_idea_idea(r, u, id, b) ==
  /\ variant = "B" /\ Free(r)
  /\ req' = [req EXCEPT ![r] =
       IF IdeaRows(id) = {}
         THEN Done("editIdea", u, id, "idea", "redirect:/view-ideas", FALSE)
         ELSE Running("editIdea", "collab", u, id, 0, b, OwnerIs(id, u))]
  /\ UNCHANGED <<variant, auth, store>>

\* the collaboration read and the permission check
B_edit_idea_collab(r) ==
  /\ variant = "B" /\ req[r].op = "editIdea" /\ req[r].pc = "collab"
  /\ req' = IF MayEditB(req[r].own, CollabRows(req[r].idea, req[r].uid) # {})
              THEN Goto(r, "update")
              ELSE Respond(r, "redirect:/view-ideas", FALSE)
  /\ UNCHANGED <<variant, auth, store>>

\* the update of the idea row
B_edit_idea_update(r) ==
  /\ variant = "B" /\ req[r].op = "editIdea" /\ req[r].pc = "update"
  /\ ideas' = {IF i.ideaid = req[r].idea
                 THEN UpdatedIdeaB(i, req[r].uid, req[r].body) ELSE i : i \in ideas}
  /\ req' = Respond(r, "redirect:/view-ideas", FALSE)
  /\ UNCHANGED <<variant, auth, collaborations, nextIdeaId, nextCollabId>>

\* idea && idea.userid === req.session.userId guards add-collaborator,
\* remove-collaborator and delete-idea
IsOwnerB(id, u) == OwnerIs(id, u)

\* POST /add-collaborator/:id, the idea read
B_add_collaborator_idea(r, u, id, t) ==
  /\ variant = "B" /\ Free(r)
  /\ req' = [req EXCEPT ![r] =
       IF IsOwnerB(id, u)
         THEN Running("addCollaborator", "insert", u, id, t, NoBody, TRUE)
         ELSE Done("addCollaborator", u, id, "idea", "redirect:/edit-idea", FALSE)]
  /\ UNCHANGED <<variant, auth, store>>

\* insert(..).onConflict(['ideaid', 'userid']).ignore(): an existing pair is
\* skipped without an error; a missing idea row is a caught error
B_add_collaborator_insert(r) ==
  /\ variant = "B" /\ req[r].op = "addCollaborator" /\ req[r].pc = "insert"
  /\ IF ForeignKeyViolation(req[r].idea, req[r].target)
       THEN /\ req' = Respond(r, "redirect:/edit-idea", TRUE)
            /\ UNCHANGED store
       ELSE IF UniqueViolation(req[r].idea, req[r].target)
         THEN /\ req' = Respond(r, "redirect:/edit-idea", FALSE)
              /\ UNCHANGED store
         ELSE /\ nextCollabId <= MaxCollabs
              /\ collaborations' = collaborations \cup
                   {CollabRow(nextCollabId, req[r].idea, req[r].target)}
              /\ nextCollabId' = nextCollabId + 1
              /\ req' = Respond(r, "redirect:/edit-idea", FALSE)
              /\ UNCHANGED <<ideas, nextIdeaId>>
  /\ UNCHANGED <<variant, auth, auth>>

\* POST /remove-collaborator/:ideaid/:userid, the idea read
B_remove_collaborator_idea(r, u, id, t) ==
  /\ variant = "B" /\ Free(r)
  /\ req' = [req EXCEPT ![r] =
       IF IsOwnerB(id, u)
         THEN Running("removeCollaborator", "del", u, id, t, NoBody, TRUE)
         ELSE Done("removeCollaborator", u, id, "idea", "redirect:/edit-idea", FALSE)]
  /\ UNCHANGED <<variant, auth, store>>

\* the delete of the (ideaid, userid) rows
B_remove_collaborator_del(r) ==
  /\ variant = "B" /\ req[r].op = "removeCollaborator" /\ req[r].pc = "del"
  /\ collaborations' = collaborations \ CollabRows(req[r].idea, req[r].target)
  /\ req' = Respond(r, "redirect:/edit-idea", FALSE)
  /\ UNCHANGED <<variant, auth, ideas, nextIdeaId, nextCollabId>>

\* POST /delete-idea/:id, the idea read
B_delete_idea_idea(r, u, id) ==
  /\ variant = "B" /\ Free(r)
  /\ req' = [req EXCEPT ![r] =
       IF IsOwnerB(id, u)
         THEN Running("deleteIdea", "row", u, id, 0, NoBody, TRUE)
         ELSE Done("deleteIdea", u, id, "idea", "redirect:/view-ideas", FALSE)]
  /\ UNCHANGED <<variant, auth, store>>

\* the rows left in idea_details by the delete of idea id
IdeasAfterDeleteB(id) == ideas \ IdeaRows(id)

\* the delete of the idea row
B_delete_idea_row(r) ==
  /\ variant = "B" /\ req[r].op = "deleteIdea" /\ req[r].pc = "row"
  /\ ideas' = IdeasAfterDeleteB(req[r].idea)
  /\ collaborations' = CascadeDelete(req[r].idea)
  /\ req' = Respond(r, "redirect:/view-ideas", FALSE)
  /\ UNCHANGED <<variant, auth, nextIdeaId, nextCollabId>>

\* ======================================================== specification
Next ==
  \E r \in Reqs :
    \/ \E u \in Users, b \in Bodies : A_addIdea(r, u, b)
    \/ \E u \in Users, id \in IdeaIds, b \in Bodies : A_editIdea_idea(r, u, id, b)
    \/ A_editIdea_collab(r)
    \/ A_editIdea_update(r)
    \/ \E u \in Users, id \in IdeaIds : A_deleteIdea_idea(r, u, id)
    \/ A_deleteIdea_collabs(r)
    \/ A_deleteIdea_row(r)
    \/ \E u \in Users, id \in IdeaIds, t \in Users : A_addCollaborator_idea(r, u, id, t)
    \/ A_addCollaborator_existing(r)
    \/ A_addCollaborator_insert(r)
    \/ \E u \in Users, cid \in CollabIds : A_removeCollaborator_collab(r, u, cid)
    \/ A_removeCollaborator_idea(r)
    \/ A_removeCollaborator_del(r)
    \/ \E u \in Users, id \in IdeaIds : A_leaveCollaboration(r, u, id)
    \/ \E u \in Users, b \in Bodies : B_add_idea(r, u, b)
    \/ \E u \in Users, id \in IdeaIds, b \in Bodies : B_edit_idea_idea(r, u, id, b)
    \/ B_edit_idea_collab(r)
    \/ B_edit_idea_update(r)
    \/ \E u \in Users, id \in IdeaIds, t \in Users : B_add_collaborator_idea(r, u, id, t)
    \/ B_add_collaborator_insert(r)
    \/ \E u \in Users, id \in IdeaIds, t \in Users : B_remove_collaborator_idea(r, u, id, t)
    \/ B_remove_collaborator_del(r)
    \/ \E u \in Users, id \in IdeaIds : B_delete_idea_idea(r, u, id)
    \/ B_delete_idea_row(r)

Spec == Init /\ [][Next]_vars

\* ============================================================== listing
\* Query results are sequences of ideaid.  A joined row is kept as the pair
\* <<ideaid, collaborationid>> (0 where the join has no collaboration side).
RECURSIVE DescIds(_)
DescIds(keys) ==
  IF keys = {} THEN <<>>
  ELSE LET m == CHOOSE x \in keys : \A y \in keys :
                  x[1] > y[1] \/ (x[1] = y[1] /\ x[2] >= y[2])
       IN  <<m[1]>> \o DescIds(keys \ {m})

\* insertion of x into a sequence sorted in descending order
RECURSIVE InsertDesc(_, _)
InsertDesc(x, s) ==
  IF s = <<>> THEN <<x>>
  ELSE IF x >= Head(s) THEN <<x>> \o s
       ELSE <<Head(s)>> \o InsertDesc(x, Tail(s))

\* [..].sort((a, b) => new Date(b.createdat) - new Date(a.createdat)):
\* createdat is set by the store at insert, so it orders rows as ideaid does
RECURSIVE SortNewestFirst(_)
SortNewestFirst(s) ==
  IF s = <<>> THEN <<>> ELSE InsertDesc(Head(s), SortNewestFirst(Tail(s)))

Range(s) == {s[k] : k \in 1..Len(s)}
Count(s, x) == Cardinality({k \in 1..Len(s) : s[k] = x})

\* ----- GET /ideas (variant A)
\* idea_details left join collaborations on ideaid
\* (an idea without collaborations joins one row of nulls, written 0)
JoinA ==
  {j \in ideas \X collaborations : j[1].ideaid = j[2].ideaid}
  \cup {<<i, CollabRow(0, i.ideaid, 0)>> : i \in {x \in ideas : CollabsOf(x.ideaid) = {}}}

\* (mutant) the ownership / collaboration condition is missing
VisibleWhereA_all(i, c, u) == TRUE

\* where id.userid = userId or c.userid = userId
VisibleWhereA(i, c, u) == i.userid = u \/ c.userid = u

\* (mutant) a name search replaces the cost bounds instead of adding to them
MatchesA_nameShadowsCost(i, f) ==
  /\ Truthy(f.searchMarketing) => ILikeContains(i.marketingstrategy, f.searchMarketing)
  /\ Truthy(f.searchCustomer) => ILikeContains(i.targetcustomer, f.searchCustomer)
  /\ Truthy(f.minPotential) => NumGE(i.potential, parseInt(f.minPotential))
  /\ IF Truthy(f.searchName)
       THEN ILikeContains(i.ideaname, f.searchName)
       ELSE /\ Truthy(f.minCost) => NumGE(i.estimatedcost, parseFloat(f.minCost))
            /\ Truthy(f.maxCost) => NumLE(i.estimatedcost, parseFloat(f.maxCost))

\* the andWhere filters of GET /ideas
MatchesA(i, f) ==
  /\ Truthy(f.searchName) => ILikeContains(i.ideaname, f.searchName)
  /\ Truthy(f.searchMarketing) => ILikeContains(i.marketingstrategy, f.searchMarketing)
  /\ Truthy(f.searchCustomer) => ILikeContains(i.targetcustomer, f.searchCustomer)
  /\ Truthy(f.minCost) => NumGE(i.estimatedcost, parseFloat(f.minCost))
  /\ Truthy(f.maxCost) => NumLE(i.estimatedcost, parseFloat(f.maxCost))
  /\ Truthy(f.minPotential) => NumGE(i.potential, parseInt(f.minPotential))

\* (mutant) no grouping: one row for each joined row
GroupByIdeaA_none(rows) == {<<j[1].ideaid, j[2].collaborationid>> : j \in rows}

\* groupBy('id.ideaid', 's.userid'): one row for each idea
GroupByIdeaA(rows) == {<<j[1].ideaid, 0>> : j \in rows}

\* the query of GET /ideas, ordered by ideaid descending
ListA(u, f) ==
  DescIds(GroupByIdeaA({j \in JoinA : VisibleWhereA(j[1], j[2], u) /\ MatchesA(j[1], f)}))

A_ideas(r, u, f) ==
  /\ variant = "A" /\ Free(r)
  /\ req' = [req EXCEPT ![r] =
       [Done("ideas", u, 0, "query", "render:viewIdeas", FALSE)
          EXCEPT !.filt = f, !.result = ListA(u, f)]]
  /\ UNCHANGED <<variant, auth, store>>

\* ----- GET /view-ideas (variant B)
\* the whereRaw / where filters of GET /view-ideas
MatchesB(i, f) ==
  /\ Truthy(f.searchMarketing) => f.searchMarketing \in Range(i.marketingstrategy)
  /\ Truthy(f.maxCost) => NumLE(i.estimatedcost, parseFloat(f.maxCost))
  /\ Truthy(f.searchName) => ILikeContains(i.ideaname, f.searchName)
  /\ Truthy(f.minPotential) => NumGE(i.potential, parseInt(f.minPotential))

\* myIdeasQuery: where i.userid = session user
MyIdeasB(u, f) ==
  DescIds({<<i.ideaid, 0>> : i \in {x \in ideas : x.userid = u /\ MatchesB(x, f)}})

\* where c.userid = session user and not i.userid = session user
SharedWhereB(i, c, u) == c.userid = u /\ i.userid # u

\* sharedIdeasQuery: idea_details join collaborations on ideaid
SharedIdeasB(u, f) ==
  DescIds({<<j[1].ideaid, j[2].collaborationid>> :
             j \in {k \in ideas \X collaborations :
                      /\ k[1].ideaid = k[2].ideaid
                      /\ SharedWhereB(k[1], k[2], u)
                      /\ MatchesB(k[1], f)}})

\* allIdeas = [...myIdeas, ...sharedIdeas].sort(newest first)
AllIdeasB(my, shared) == SortNewestFirst(my \o shared)

ListB(u, f) == AllIdeasB(MyIdeasB(u, f), SharedIdeasB(u, f))

B_view_ideas_my(r, u, f) ==
  /\ variant = "B" /\ Free(r)
  /\ req' = [req EXCEPT ![r] =
       [Running("viewIdeas", "shared", u, 0, 0, NoBody, FALSE)
          EXCEPT !.filt = f, !.result = MyIdeasB(u, f)]]
  /\ UNCHANGED <<variant, auth, store>>

B_view_ideas_shared(r) ==
  /\ variant = "B" /\ req[r].op = "viewIdeas" /\ req[r].pc = "shared"
  /\ req' = [req EXCEPT ![r] =
       [Done("viewIdeas", @.uid, 0, "shared", "render:viewIdeas", FALSE)
          EXCEPT !.filt = req[r].filt,
                 !.result = AllIdeasB(req[r].result, SharedIdeasB(req[r].uid, req[r].filt))]]
  /\ UNCHANGED <<variant, auth, store>>

\* the listing of the variant that runs
Listing(u, f) == IF variant = "A" THEN ListA(u, f) ELSE ListB(u, f)

\* ----- the listing specification: any store of at most ListIdeas ideas and
\* any collaborations the schema allows, and the two listing handlers on it
ListStores ==
  UNION {[1..n -> Users \X ListBodies] : n \in 0..ListIdeas}

ListPairs == (1..ListIdeas) \X Users

\* the collaborationid of the row of pair p: rows are numbered in pair order
PairId(p) == (p[1] - 1) * NumUsers + p[2]

InitList ==
  /\ variant \in {"A", "B"}
  /\ \E st \in ListStores :
       /\ ideas = {IF variant = "A" THEN NewIdeaA(k, st[k][1], st[k][2])
                                    ELSE NewIdeaB(k, st[k][1], st[k][2]) : k \in DOMAIN st}
       /\ nextIdeaId = Len(st) + 1
       /\ \E ps \in SUBSET {p \in ListPairs : p[1] \in DOMAIN st} :
            collaborations = {CollabRow(PairId(p), p[1], p[2]) : p \in ps}
  /\ nextCollabId = ListIdeas * NumUsers + 1
  /\ req = [r \in Reqs |-> Idle]
  /\ AllRegistered

\* (the listing only reads: one request at a time shows all it can return)
NextList ==
  \/ \E u \in Users, f \in Filters : A_ideas(1, u, f)
  \/ \E u \in Users, f \in Filters : B_view_ideas_my(1, u, f)
  \/ B_view_ideas_shared(1)

SpecList == InitList /\ [][NextList]_vars

\* ================================================= accounts and sessions
\* a handler of an account route: its browser and the form it was posted
AuthRunning(op, pc, c, f, u) ==
  [Running(op, pc, u, 0, 0, NoBody, FALSE) EXCEPT !.client = c, !.form = f]
AuthDone(op, c, f, u, last, resp, err) ==
  [Done(op, u, 0, last, resp, err) EXCEPT !.client = c, !.form = f]

\* where("username", username)
UsersNamed(n) == {s \in security : s.username = n}

\* (mutant) the password condition is missing
CredentialsMatch_nameOnly(s, f) == s.username = f.username

\* where("username", sUsername).andWhere("passwordhash", sPassword)
CredentialsMatch(s, f) ==
  s.username = f.username /\ s.passwordhash = f.password

\* The schema of the security table: username is unique.
UsernameTaken(n) == UsersNamed(n) # {}

\* (mutant) destroy leaves the session as it is
Destroyed_keeps(s) == s

\* req.session.destroy(): the session is removed from the store
Destroyed(s) == NoSession

\* ----- variant A
\* POST /login: one query; on a match the session fields are set and saved
\* with the response
A_login(r, c, f) ==
  /\ variant = "A" /\ Free(r)
  /\ IF \E s \in security : CredentialsMatch(s, f)
       THEN \E s \in security :
              /\ CredentialsMatch(s, f)
              /\ session' = [session EXCEPT ![c] = Session(TRUE, s.userid)]
              /\ req' = [req EXCEPT ![r] =
                   AuthDone("login", c, f, s.userid, "query", "redirect:/", FALSE)]
       ELSE /\ req' = [req EXCEPT ![r] =
                 AuthDone("login", c, f, 0, "query", "render:login:invalid", FALSE)]
            /\ UNCHANGED session
  /\ UNCHANGED <<variant, store, security, nextUserId>>

\* !username || !password || !email || !firstname || !lastname
MissingAccountField(f) ==
  ~Truthy(f.username) \/ ~Truthy(f.password) \/ ~Truthy(f.email)

\* (mutant) the check finds no row
ExistingUsersA_none(n) == {}

\* existingUsers of POST /register
ExistingUsersA(n) == UsersNamed(n)

\* POST /register: validation and the username check
A_register_check(r, c, f) ==
  /\ variant = "A" /\ Free(r)
  /\ req' = [req EXCEPT ![r] =
       IF MissingAccountField(f)
         THEN AuthDone("register", c, f, 0, "validate", "render:register:required", FALSE)
         ELSE IF ExistingUsersA(f.username) # {}
           THEN AuthDone("register", c, f, 0, "check", "render:register:exists", FALSE)
           ELSE AuthRunning("register", "insert", c, f, 0)]
  /\ UNCHANGED <<variant, store, auth>>

\* the insert of the new user; a failure is caught by the inner catch
A_register_insert(r) ==
  /\ variant = "A" /\ req[r].op = "register" /\ req[r].pc = "insert"
  /\ IF UsernameTaken(req[r].form.username)
       THEN /\ req' = [req EXCEPT ![r] =
                 AuthDone("register", @.client, @.form, 0, "insert",
                          "render:register:unable", TRUE)]
            /\ UNCHANGED <<security, nextUserId>>
       ELSE /\ nextUserId <= NumUsers
            /\ security' = security \cup {UserRow(nextUserId, req[r].form)}
            /\ nextUserId' = nextUserId + 1
            /\ req' = [req EXCEPT ![r] =
                 AuthDone("register", @.client, @.form, nextUserId, "insert",
                          "render:login:registered", FALSE)]
  /\ UNCHANGED <<variant, store, session>>

\* GET /logout
A_logout(r, c) ==
  /\ variant = "A" /\ Free(r)
  /\ session' = [session EXCEPT ![c] = Destroyed(@)]
  /\ req' = [req EXCEPT ![r] =
       AuthDone("logout", c, NoForm, 0, "destroy", "redirect:/", FALSE)]
  /\ UNCHANGED <<variant, store, security, nextUserId>>

\* (mutant) a protected route is listed as public
PublicRoutesA_leave ==
  {"/", "/login", "/register", "/logout", "/leaveCollaboration"}

\* publicRoutes of the global authentication middleware
PublicRoutesA == {"/", "/login", "/register", "/logout"}

\* the routes registered behind the middleware
ProtectedRoutesA ==
  {"/ideas", "/addIdea", "/editIdea", "/deleteIdea", "/addCollaborator",
   "/removeCollaborator", "/leaveCollaboration"}

\* the global authentication middleware calls next()
NextA(c, path) == path \in PublicRoutesA \/ session[c].isLoggedIn

\* ... or renders the login view; the route handler does not run
A_auth_login(r, c, path) ==
  /\ variant = "A" /\ Free(r)
  /\ ~NextA(c, path)
  /\ req' = [req EXCEPT ![r] =
       AuthDone(path, c, NoForm, 0, "auth", "render:login", FALSE)]
  /\ UNCHANGED <<variant, store, auth>>

\* ----- variant B
\* POST /login, the user read
B_login_user(r, c, f) ==
  /\ variant = "B" /\ Free(r)
  /\ IF \E s \in security : CredentialsMatch(s, f)
       THEN \E s \in security :
              /\ CredentialsMatch(s, f)
              /\ req' = [req EXCEPT ![r] = AuthRunning("login", "update", c, f, s.userid)]
       ELSE req' = [req EXCEPT ![r] =
              AuthDone("login", c, f, 0, "query", "render:login:invalid", FALSE)]
  /\ UNCHANGED <<variant, store, auth>>

\* the update of lastlogin; the session fields set before it are saved with
\* the response
B_login_update(r) ==
  /\ variant = "B" /\ req[r].op = "login" /\ req[r].pc = "update"
  /\ session' = [session EXCEPT ![req[r].client] = Session(FALSE, req[r].uid)]
  /\ req' = [req EXCEPT ![r] =
       AuthDone("login", @.client, @.form, @.uid, "update", "redirect:/", FALSE)]
  /\ UNCHANGED <<variant, store, security, nextUserId>>

\* (mutant) the check finds no row
ExistingUserB_none(n) == {}

\* existingUser of POST /create-account
ExistingUserB(n) == UsersNamed(n)

\* POST /create-account, the username check (no field is validated)
B_create_account_check(r, c, f) ==
  /\ variant = "B" /\ Free(r)
  /\ req' = [req EXCEPT ![r] =
       IF ExistingUserB(f.username) # {}
         THEN AuthDone("register", c, f, 0, "check", "render:createAccount:exists", FALSE)
         ELSE AuthRunning("register", "insert", c, f, 0)]
  /\ UNCHANGED <<variant, store, auth>>

\* the insert of the new user; a failure is caught
B_create_account_insert(r) ==
  /\ variant = "B" /\ req[r].op = "register" /\ req[r].pc = "insert"
  /\ IF UsernameTaken(req[r].form.username)
       THEN /\ req' = [req EXCEPT ![r] =
                 AuthDone("register", @.client, @.form, 0, "insert",
                          "render:createAccount:error", TRUE)]
            /\ UNCHANGED <<security, nextUserId>>
       ELSE /\ nextUserId <= NumUsers
            /\ security' = security \cup {UserRow(nextUserId, req[r].form)}
            /\ nextUserId' = nextUserId + 1
            /\ req' = Goto(r, "user")
  /\ UNCHANGED <<variant, store, session>>

\* the read of the new user, who is logged in at once
B_create_account_user(r) ==
  /\ variant = "B" /\ req[r].op = "register" /\ req[r].pc = "user"
  /\ \E s \in UsersNamed(req[r].form.username) :
       /\ session' = [session EXCEPT ![req[r].client] = Session(FALSE, s.userid)]
       /\ req' = [req EXCEPT ![r] =
            AuthDone("register", @.client, @.form, s.userid, "user", "redirect:/", FALSE)]
  /\ UNCHANGED <<variant, store, security, nextUserId>>

\* GET /logout
B_logout(r, c) ==
  /\ variant = "B" /\ Free(r)
  /\ session' = [session EXCEPT ![c] = Destroyed(@)]
  /\ req' = [req EXCEPT ![r] =
       AuthDone("logout", c, NoForm, 0, "destroy", "redirect:/login", FALSE)]
  /\ UNCHANGED <<variant, store, security, nextUserId>>

\* the routes registered with requireAuth
ProtectedRoutesB ==
  {"/view-ideas", "/add-idea", "/edit-idea", "/delete-idea", "/add-collaborator",
   "/remove-collaborator"}

\* (mutant) requireAuth lets every request through
requireAuth_always(c) == TRUE

\* requireAuth calls next()
requireAuth(c) == session[c].userId # 0

\* ... or redirects to /login; the route handler does not run
B_requireAuth_login(r, c, path) ==
  /\ variant = "B" /\ Free(r)
  /\ ~requireAuth(c)
  /\ req' = [req EXCEPT ![r] =
       AuthDone(path, c, NoForm, 0, "auth", "redirect:/login", FALSE)]
  /\ UNCHANGED <<variant, store, auth>>

\* ----- the account specification: nobody is registered; the account routes
\* run in any slot, the protected routes behind the session check in slot 1
InitAuth ==
  /\ variant \in {"A", "B"}
  /\ ideas = {}
  /\ collaborations = {}
  /\ nextIdeaId = 1
  /\ nextCollabId = 1
  /\ req = [r \in Reqs |-> Idle]
  /\ security = {}
  /\ nextUserId = 1
  /\ session = [c \in Clients |-> NoSession]

\* the form and the query string of the protected requests
AuthBodies == {BodyLaundromat}

NextAuth ==
  \/ \E r \in Reqs, c \in Clients :
       \/ \E f \in LoginForms : A_login(r, c, f)
       \/ \E f \in RegisterForms : A_register_check(r, c, f)
       \/ A_register_insert(r)
       \/ A_logout(r, c)
       \/ \E f \in LoginForms : B_login_user(r, c, f)
       \/ B_login_update(r)
       \/ \E f \in RegisterForms : B_create_account_check(r, c, f)
       \/ B_create_account_insert(r)
       \/ B_create_account_user(r)
       \/ B_logout(r, c)
  \/ \E c \in Clients :
       \/ \E path \in ProtectedRoutesA : A_auth_login(1, c, path)
       \/ NextA(c, "/ideas") /\ A_ideas(1, session[c].userId, NoFilter)
       \/ NextA(c, "/addIdea") /\ \E b \in AuthBodies : A_addIdea(1, session[c].userId, b)
       \/ NextA(c, "/editIdea") /\ \E id \in IdeaIds, b \in AuthBodies :
            A_editIdea_idea(1, session[c].userId, id, b)
       \/ NextA(c, "/deleteIdea") /\ \E id \in IdeaIds :
            A_deleteIdea_idea(1, session[c].userId, id)
       \/ NextA(c, "/addCollaborator") /\ \E id \in IdeaIds, t \in Users :
            A_addCollaborator_idea(1, session[c].userId, id, t)
       \/ NextA(c, "/removeCollaborator") /\ \E cid \in CollabIds :
            A_removeCollaborator_collab(1, session[c].userId, cid)
       \/ NextA(c, "/leaveCollaboration") /\ \E id \in IdeaIds :
            A_leaveCollaboration(1, session[c].userId, id)
       \/ \E path \in ProtectedRoutesB : B_requireAuth_login(1, c, path)
       \/ requireAuth(c) /\ B_view_ideas_my(1, session[c].userId, NoFilter)
       \/ requireAuth(c) /\ \E b \in AuthBodies : B_add_idea(1, session[c].userId, b)
       \/ requireAuth(c) /\ \E id \in IdeaIds, b \in AuthBodies :
            B_edit_idea_idea(1, session[c].userId, id, b)
       \/ requireAuth(c) /\ \E id \in IdeaIds :
            B_delete_idea_idea(1, session[c].userId, id)
       \/ requireAuth(c) /\ \E id \in IdeaIds, t \in Users :
            B_add_collaborator_idea(1, session[c].userId, id, t)
       \/ requireAuth(c) /\ \E id \in IdeaIds, t \in Users :
            B_remove_collaborator_idea(1, session[c].userId, id, t)
  \/ A_editIdea_collab(1) \/ A_editIdea_update(1)
  \/ A_deleteIdea_collabs(1) \/ A_deleteIdea_row(1)
  \/ A_addCollaborator_existing(1) \/ A_addCollaborator_insert(1)
  \/ A_removeCollaborator_idea(1) \/ A_removeCollaborator_del(1)
  \/ B_view_ideas_shared(1)
  \/ B_edit_idea_collab(1) \/ B_edit_idea_update(1)
  \/ B_add_collaborator_insert(1)
  \/ B_remove_collaborator_del(1)
  \/ B_delete_idea_row(1)

SpecAuth == InitAuth /\ [][NextAuth]_vars

\* ====================================================== storage failures
\* ----- GET /editIdea/:id (variant A): four queries, each nested in the
\* callback of the one before
\* the user ids of a set of rows, in ascending order
RECURSIVE AscIds(_)
AscIds(ids) ==
  IF ids = {} THEN <<>>
  ELSE LET m == CHOOSE x \in ids : \A y \in ids : x <= y
       IN  <<m>> \o AscIds(ids \ {m})

\* select .. from collaborations where ideaid: the collaborators
CollaboratorsOf(id) == AscIds({c.userid : c \in CollabsOf(id)})

\* whereNot('userid', idea.userid).whereNotIn('userid', collaborators)
AvailableUsersA(owner, collaborators) ==
  AscIds({s.userid : s \in security} \ ({owner} \cup Range(collaborators)))

\* whereNot('userid', idea.userid)
AllUsersB(owner) == AscIds({s.userid : s \in security} \ {owner})

\* the idea read; target keeps idea.userid
A_editIdeaPage_idea(r, u, id) ==
  /\ variant = "A" /\ Free(r)
  /\ req' = [req EXCEPT ![r] =
       IF IdeaRows(id) = {}
         THEN Done("editIdeaPage", u, id, "idea", "redirect:/ideas", FALSE)
         ELSE Running("editIdeaPage", "collab", u, id,
                      (CHOOSE i \in IdeaRows(id) : TRUE).userid, NoBody, OwnerIs(id, u))]
  /\ UNCHANGED <<variant, auth, store>>

A_editIdeaPage_collab(r) ==
  /\ variant = "A" /\ req[r].op = "editIdeaPage" /\ req[r].pc = "collab"
  /\ req' = IF MayEditA(req[r].own, CollabRows(req[r].idea, req[r].uid) # {})
              THEN Goto(r, "collaborators")
              ELSE Respond(r, "redirect:/ideas", FALSE)
  /\ UNCHANGED <<variant, auth, store>>

A_editIdeaPage_collaborators(r) ==
  /\ variant = "A" /\ req[r].op = "editIdeaPage" /\ req[r].pc = "collaborators"
  /\ req' = [req EXCEPT ![r] =
       [@ EXCEPT !.pc = "users", !.result = CollaboratorsOf(req[r].idea)]]
  /\ UNCHANGED <<variant, auth, store>>

A_editIdeaPage_users(r) ==
  /\ variant = "A" /\ req[r].op = "editIdeaPage" /\ req[r].pc = "users"
  /\ req' = [req EXCEPT ![r] =
       [Done("editIdeaPage", @.uid, @.idea, "users", "render:editIdea", FALSE)
          EXCEPT !.result = AvailableUsersA(req[r].target, req[r].result)]]
  /\ UNCHANGED <<variant, auth, store>>

\* ----- GET /edit-idea/:id (variant B): four queries awaited in one try
B_edit_idea_page_idea(r, u, id) ==
  /\ variant = "B" /\ Free(r)
  /\ req' = [req EXCEPT ![r] =
       IF IdeaRows(id) = {}
         THEN Done("editIdeaPage", u, id, "idea", "redirect:/view-ideas", FALSE)
         ELSE Running("editIdeaPage", "collab", u, id,
                      (CHOOSE i \in IdeaRows(id) : TRUE).userid, NoBody, OwnerIs(id, u))]
  /\ UNCHANGED <<variant, auth, store>>

B_edit_idea_page_collab(r) ==
  /\ variant = "B" /\ req[r].op = "editIdeaPage" /\ req[r].pc = "collab"
  /\ req' = IF MayEditB(req[r].own, CollabRows(req[r].idea, req[r].uid) # {})
              THEN Goto(r, "collaborators")
              ELSE Respond(r, "redirect:/view-ideas", FALSE)
  /\ UNCHANGED <<variant, auth, store>>

B_edit_idea_page_collaborators(r) ==
  /\ variant = "B" /\ req[r].op = "editIdeaPage" /\ req[r].pc = "collaborators"
  /\ req' = Goto(r, "users")
  /\ UNCHANGED <<variant, auth, store>>

B_edit_idea_page_users(r) ==
  /\ variant = "B" /\ req[r].op = "editIdeaPage" /\ req[r].pc = "users"
  /\ req' = [req EXCEPT ![r] =
       [Done("editIdeaPage", @.uid, @.idea, "users", "render:editIdea", FALSE)
          EXCEPT !.result = AllUsersB(req[r].target)]]
  /\ UNCHANGED <<variant, auth, store>>

\* ----- a query that fails rejects its promise.  pc names the query a handler
\* awaits; FirstQuery names the query a handler starts with.
FirstQueryA ==
  [ideas |-> "query", addIdea |-> "insert", editIdeaPage |-> "idea",
   editIdea |-> "idea", deleteIdea |-> "idea", addCollaborator |-> "idea",
   removeCollaborator |-> "collab", leaveCollaboration |-> "del"]

FirstQueryB ==
  [viewIdeas |-> "my", addIdea |-> "insert", editIdeaPage |-> "idea",
   editIdea |-> "idea", deleteIdea |-> "idea", addCollaborator |-> "idea",
   removeCollaborator |-> "idea"]

\* part_000: the response of the .catch that the rejection of query pc of
\* handler op reaches; "none" where the promise of that query is neither
\* returned to a chain that has a .catch nor given one
CatchA(op, pc) ==
  CASE op = "ideas" -> "render:viewIdeas"
    [] op = "addIdea" -> "render:addIdea"
    [] op = "leaveCollaboration" -> "redirect:/ideas"
    [] op = "deleteIdea" -> "redirect:/ideas"
    [] op = "editIdeaPage" -> IF pc = "idea" THEN "redirect:/ideas" ELSE "none"
    [] op = "editIdea" ->
         IF pc = "idea" THEN "redirect:/ideas"
         ELSE IF pc = "update" THEN "redirect:/editIdea" ELSE "none"
    [] op = "addCollaborator" ->
         IF pc \in {"idea", "insert"} THEN "redirect:/editIdea" ELSE "none"
    [] op = "removeCollaborator" ->
         IF pc = "collab" THEN "redirect:/ideas"
         ELSE IF pc = "del" THEN "redirect:/editIdea" ELSE "none"

\* index.js: every await is inside the try of its handler
CatchB(op, pc) ==
  CASE op = "viewIdeas" -> "send:500"
    [] op = "addIdea" -> "render:addIdea"
    [] op = "editIdeaPage" -> "redirect:/view-ideas"
    [] op = "deleteIdea" -> "redirect:/view-ideas"
    [] op \in {"editIdea", "addCollaborator", "removeCollaborator"} -> "redirect:/edit-idea"

\* A rejection without a catch: no response is ever sent for the request
\* (pc "hung").  Depending on the Node.js version the rejection is only
\* reported, or the process exits and every request in flight is lost with it.
UnhandledRejection(r) ==
  \/ req' = Goto(r, "hung")
  \/ req' = [q \in Reqs |->
               IF req[q].pc = "done" THEN req[q] ELSE [req[q] EXCEPT !.pc = "hung"]]

\* the routes whose path names an idea (:id)
IdeaParam(op, id) ==
  IF op \in {"editIdeaPage", "editIdea", "deleteIdea", "addCollaborator",
              "leaveCollaboration"} \/ (op = "removeCollaborator" /\ variant = "B")
    THEN id ELSE 0

\* the first query of a handler fails
A_firstQueryFails(r, u, id, op) ==
  /\ variant = "A" /\ Free(r)
  /\ req' = [req EXCEPT ![r] =
       Done(op, u, IdeaParam(op, id), FirstQueryA[op], CatchA(op, FirstQueryA[op]), TRUE)]
  /\ UNCHANGED <<variant, auth, store>>

B_firstQueryFails(r, u, id, op) ==
  /\ variant = "B" /\ Free(r)
  /\ req' = [req EXCEPT ![r] =
       Done(op, u, IdeaParam(op, id), FirstQueryB[op], CatchB(op, FirstQueryB[op]), TRUE)]
  /\ UNCHANGED <<variant, auth, store>>

\* the query that a handler in flight awaits fails
A_queryFails(r) ==
  /\ variant = "A" /\ req[r].pc \notin {"done", "hung"}
  /\ IF CatchA(req[r].op, req[r].pc) = "none"
       THEN UnhandledRejection(r)
       ELSE req' = Respond(r, CatchA(req[r].op, req[r].pc), TRUE)
  /\ UNCHANGED <<variant, auth, store>>

B_queryFails(r) ==
  /\ variant = "B" /\ req[r].pc \notin {"done", "hung"}
  /\ req' = Respond(r, CatchB(req[r].op, req[r].pc), TRUE)
  /\ UNCHANGED <<variant, auth, store>>

\* ----- the failure specification: the handlers of Spec on one form, the
\* two pages, and any query of any of them failing
FaultBodies == {BodyLaundromat}

NextFault ==
  \E r \in Reqs :
    \/ \E u \in Users : A_ideas(r, u, NoFilter)
    \/ \E u \in Users, b \in FaultBodies : A_addIdea(r, u, b)
    \/ \E u \in Users, id \in IdeaIds : A_editIdeaPage_idea(r, u, id)
    \/ A_editIdeaPage_collab(r)
    \/ A_editIdeaPage_collaborators(r)
    \/ A_editIdeaPage_users(r)
    \/ \E u \in Users, id \in IdeaIds, b \in FaultBodies : A_editIdea_idea(r, u, id, b)
    \/ A_editIdea_collab(r)
    \/ A_editIdea_update(r)
    \/ \E u \in Users, id \in IdeaIds : A_deleteIdea_idea(r, u, id)
    \/ A_deleteIdea_collabs(r)
    \/ A_deleteIdea_row(r)
    \/ \E u \in Users, id \in IdeaIds, t \in Users : A_addCollaborator_idea(r, u, id, t)
    \/ A_addCollaborator_existing(r)
    \/ A_addCollaborator_insert(r)
    \/ \E u \in Users, cid \in CollabIds : A_removeCollaborator_collab(r, u, cid)
    \/ A_removeCollaborator_idea(r)
    \/ A_removeCollaborator_del(r)
    \/ \E u \in Users, id \in IdeaIds : A_leaveCollaboration(r, u, id)
    \/ \E u \in Users, id \in IdeaIds, op \in DOMAIN FirstQueryA :
         A_firstQueryFails(r, u, id, op)
    \/ A_queryFails(r)
    \/ \E u \in Users : B_view_ideas_my(r, u, NoFilter)
    \/ B_view_ideas_shared(r)
    \/ \E u \in Users, b \in FaultBodies : B_add_idea(r, u, b)
    \/ \E u \in Users, id \in IdeaIds : B_edit_idea_page_idea(r, u, id)
    \/ B_edit_idea_page_collab(r)
    \/ B_edit_idea_page_collaborators(r)
    \/ B_edit_idea_page_users(r)
    \/ \E u \in Users, id \in IdeaIds, b \in FaultBodies : B_edit_idea_idea(r, u, id, b)
    \/ B_edit_idea_collab(r)
    \/ B_edit_idea_update(r)
    \/ \E u \in Users, id \in IdeaIds, t \in Users : B_add_collaborator_idea(r, u, id, t)
    \/ B_add_collaborator_insert(r)
    \/ \E u \in Users, id \in IdeaIds, t \in Users : B_remove_collaborator_idea(r, u, id, t)
    \/ B_remove_collaborator_del(r)
    \/ \E u \in Users, id \in IdeaIds : B_delete_idea_idea(r, u, id)
    \/ B_delete_idea_row(r)
    \/ \E u \in Users, id \in IdeaIds, op \in DOMAIN FirstQueryB :
         B_firstQueryFails(r, u, id, op)
    \/ B_queryFails(r)

SpecFault == Init /\ [][NextFault]_vars

\* =============================================================== claims
CanView(id, u) == OwnerIs(id, u) \/ CollabRows(id, u) # {}
IsDone(r, op) == req[r].op = op /\ req[r].pc = "done"
Redirects ==
  {"redirect:/ideas", "redirect:/editIdea", "redirect:/view-ideas", "redirect:/edit-idea"}

\* C1: every idea row has exactly one owner; a new row is owned by the user of
\* the addIdea request that inserted it, and no step changes the owner of a row.
C1_OwnerImmutable ==
  [][ /\ \A i \in ideas', j \in ideas' : i.ideaid = j.ideaid => i = j
      /\ \A j \in ideas' :
           IF \E i \in ideas : i.ideaid = j.ideaid
             THEN \A i \in ideas : i.ideaid = j.ideaid => i.userid = j.userid
             ELSE \E r \in Reqs : /\ req'[r].op = "addIdea" /\ req'[r].pc = "done"
                                  /\ req'[r].idea = j.ideaid /\ req'[r].uid = j.userid
    ]_vars

\* C1 witness: a collaborator's update was written and the row still
\* belongs to the other user, while the idea has a collaboration row
C1_Witness ==
  \E r \in Reqs :
    /\ IsDone(r, "editIdea") /\ req[r].last = "update"
    /\ \E i \in IdeaRows(req[r].idea) : i.userid # req[r].uid
    /\ CollabRows(req[r].idea, req[r].uid) # {}

\* C3 (as claimed): a pair has at most one collaboration row, and an
\* addCollaborator of the owner that reached its insert while the idea exists
\* ends without an error
C3_AddTwiceNoError ==
  /\ \A c \in collaborations, d \in collaborations :
       (c.ideaid = d.ideaid /\ c.userid = d.userid) => c = d
  /\ \A r \in Reqs :
       (IsDone(r, "addCollaborator") /\ req[r].last = "insert"
          /\ IdeaRows(req[r].idea) # {}) => ~req[r].err

\* C4: once a deleteIdea of the owner has completed its deletes, the idea row
\* is gone and no collaboration row references the idea
C4_DeleteLeavesNothing ==
  \A r \in Reqs :
    (IsDone(r, "deleteIdea") /\ req[r].last = "row") =>
       /\ IdeaRows(req[r].idea) = {}
       /\ CollabsOf(req[r].idea) = {}

\* C4 witness: a delete completed on an idea that had been shared
C4_Witness ==
  \E r \in Reqs :
    /\ IsDone(r, "deleteIdea") /\ req[r].last = "row"
    /\ nextIdeaId > req[r].idea
    /\ nextCollabId > 1

\* C5: a step of a deleteIdea request whose user is not the owner of the idea
\* (a collaborator included) changes neither the idea rows nor the
\* collaboration rows
C5_NonOwnerDeleteChangesNothing ==
  [][ \A r \in Reqs :
        (req'[r] # req[r] /\ req'[r].op = "deleteIdea"
           /\ ~OwnerIs(req'[r].idea, req'[r].uid))
        => (ideas' = ideas /\ collaborations' = collaborations)
    ]_vars

\* C5 witness: a collaborator's delete was refused; idea and row are there
C5_Witness ==
  \E r \in Reqs :
    /\ IsDone(r, "deleteIdea") /\ req[r].last = "idea"
    /\ ~OwnerIs(req[r].idea, req[r].uid)
    /\ IdeaRows(req[r].idea) # {}
    /\ CollabRows(req[r].idea, req[r].uid) # {}

\* C6: a step of an addCollaborator or removeCollaborator request whose user
\* is not the owner of the idea leaves the collaborations table unchanged
C6_OnlyOwnerManages ==
  [][ \A r \in Reqs :
        (req'[r] # req[r]
           /\ req'[r].op \in {"addCollaborator", "removeCollaborator"}
           /\ ~OwnerIs(req'[r].idea, req'[r].uid))
        => collaborations' = collaborations
    ]_vars

\* C6 witness: a collaborator's removeCollaborator was refused at the
\* ownership check and the rows of the idea are still there
C6_Witness ==
  \E r \in Reqs :
    /\ IsDone(r, "removeCollaborator") /\ req[r].last = "idea"
    /\ IdeaRows(req[r].idea) # {} /\ ~OwnerIs(req[r].idea, req[r].uid)
    /\ CollabRows(req[r].idea, req[r].uid) # {}

\* C7: leaveCollaboration removes the rows of (idea, caller), none when there
\* is none, and changes no other collaboration row and no idea
C7_LeaveRemovesOwnRowOnly ==
  [][ \A r \in Reqs :
        (req'[r] # req[r] /\ req'[r].op = "leaveCollaboration")
        => /\ collaborations' =
                {c \in collaborations :
                   ~(c.ideaid = req'[r].idea /\ c.userid = req'[r].uid)}
           /\ ideas' = ideas
    ]_vars

\* C7 witness: a collaborator who is not the owner has left, and another
\* collaboration row of the same idea is still there
C7_Witness ==
  \E r \in Reqs :
    /\ IsDone(r, "leaveCollaboration")
    /\ IdeaRows(req[r].idea) # {} /\ ~OwnerIs(req[r].idea, req[r].uid)
    /\ CollabRows(req[r].idea, req[r].uid) = {}
    /\ CollabsOf(req[r].idea) # {}
    /\ nextCollabId > MaxCollabs

\* C8 (as claimed): the update of an editIdea request is written only when
\* name and description are not empty and the caller is owner or collaborator;
\* otherwise the idea rows stay as they are and the response is a redirect
C8_UpdateOnlyValidAndPermitted ==
  [][ \A r \in Reqs :
        (req'[r] # req[r] /\ req'[r].op = "editIdea" /\ req'[r].pc = "done")
        => /\ req'[r].resp \in Redirects /\ ~req'[r].err
           /\ (\/ req[r].pc # "update"
               \/ MissingRequired(req[r].body)
               \/ ~CanView(req[r].idea, req[r].uid)) => ideas' = ideas
           /\ (/\ req[r].pc = "update"
               /\ ~MissingRequired(req[r].body)
               /\ CanView(req[r].idea, req[r].uid))
              => \A i \in ideas' :
                   i.ideaid = req[r].idea =>
                     /\ i.ideaname = req[r].body.ideaname
                     /\ i.ideadescription = req[r].body.ideadescription
    ]_vars

\* ------------------------------------------------------ listing claims
ListingDone(r) ==
  req[r].pc = "done" /\ req[r].op \in {"ideas", "viewIdeas"}

\* the filters of the variant that runs
Matches(i, f) == IF variant = "A" THEN MatchesA(i, f) ELSE MatchesB(i, f)

\* C2: whatever the filters, every idea of a listing returned to a user is
\* owned by that user or shared with that user
C2_ListingOnlyVisible ==
  \A r \in Reqs :
    ListingDone(r) =>
      \A k \in Range(req[r].result) : CanView(k, req[r].uid)

\* C2 witness: a filtered listing returned an idea, and left out an idea that
\* passes the filters but belongs to another user and is not shared
C2_Witness ==
  \E r \in Reqs :
    /\ ListingDone(r) /\ req[r].filt # NoFilter /\ req[r].result # <<>>
    /\ \E i \in ideas :
         /\ Matches(i, req[r].filt) /\ ~CanView(i.ideaid, req[r].uid)
         /\ i.ideaid \notin Range(req[r].result)

\* C9: without filters the listing holds each idea the user owns or
\* collaborates on exactly once, and no other idea
C9_UnfilteredListingExact ==
  \A r \in Reqs :
    (ListingDone(r) /\ req[r].filt = NoFilter) =>
      /\ Range(req[r].result) = {i.ideaid : i \in {x \in ideas : CanView(x.ideaid, req[r].uid)}}
      /\ \A k \in Range(req[r].result) : Count(req[r].result, k) = 1

\* C9 witness: the unfiltered listing of a user who owns an idea that has two
\* collaboration rows, one of them the owner's own, and who collaborates on
\* another idea
C9_Witness ==
  \E r \in Reqs :
    /\ ListingDone(r) /\ req[r].filt = NoFilter /\ Len(req[r].result) = 2
    /\ \E i \in ideas :
         /\ i.userid = req[r].uid
         /\ CollabRows(i.ideaid, req[r].uid) # {}
         /\ Cardinality(CollabsOf(i.ideaid)) = 2
    /\ \E i \in ideas : i.userid # req[r].uid /\ CollabRows(i.ideaid, req[r].uid) # {}

\* C10: the listing for a query string that carries two filters holds the
\* ideas that are in the listing for each of the two filters alone
C10_FiltersConjunctive ==
  \A r \in Reqs :
    ListingDone(r) =>
      \A f \in SingleFilters, g \in SingleFilters :
        (f # g /\ req[r].filt = Both(f, g)) =>
          Range(req[r].result) =
            Range(Listing(req[r].uid, f)) \cap Range(Listing(req[r].uid, g))

\* C10 witness: a listing by name and minimum cost is empty although each of
\* the two filters alone returns an idea
C10_Witness ==
  \E r \in Reqs :
    /\ ListingDone(r) /\ variant = "A"
    /\ Truthy(req[r].filt.searchName) /\ Truthy(req[r].filt.minCost)
    /\ req[r].result = <<>>
    /\ ListA(req[r].uid, [NoFilter EXCEPT !.searchName = req[r].filt.searchName]) # <<>>
    /\ ListA(req[r].uid, [NoFilter EXCEPT !.minCost = req[r].filt.minCost]) # <<>>

\* ------------------------------------------------------ account claims
\* the session check of the variant that runs, on a session
AuthenticatedIn(s) == IF variant = "A" THEN s.isLoggedIn ELSE s.userId # 0
Authenticated(c) == AuthenticatedIn(session[c])

AccountOps == {"login", "register", "logout"}
LoginViews == {"render:login", "redirect:/login"}

\* slot r accepts a request of a protected route in this step
AcceptsProtected(r) ==
  req[r].pc = "done" /\ req'[r] # req[r] /\ req'[r].op \notin AccountOps

\* C11: a request of a protected route is either handled for the user of an
\* authenticated session, or it comes from a browser without one and is then
\* answered at once with the login view, by the session check and not by
\* the route's handler, and ideas and collaborations stay as they are
C11_UnauthenticatedRejected ==
  [][ \A r \in Reqs :
        AcceptsProtected(r) =>
          \/ \E c \in Clients : Authenticated(c) /\ req'[r].uid = session[c].userId
          \/ /\ req'[r].op \in ProtectedRoutesA \cup ProtectedRoutesB
             /\ ~Authenticated(req'[r].client)
             /\ req'[r].pc = "done" /\ req'[r].last = "auth"
             /\ req'[r].resp \in LoginViews
             /\ store' = store
    ]_vars

\* C11 witness: a delete posted without a session was answered with the
\* login view while the idea is there
C11_Witness ==
  \E r \in Reqs :
    /\ req[r].op \in {"/deleteIdea", "/delete-idea"} /\ req[r].last = "auth"
    /\ ~Authenticated(req[r].client)
    /\ ideas # {}

\* C12: a login ends with the session of its browser bound to a user row
\* whose username and password are the ones given, when there is such a
\* row; when there is none it ends with the invalid-credentials login view
\* and no session is changed; the sessions of other browsers are never changed
C12_LoginOnlyOnMatch ==
  [][ \A r \in Reqs :
        (req'[r] # req[r] /\ req'[r].op = "login" /\ req'[r].pc = "done") =>
          LET c == req'[r].client
              f == req'[r].form
              rows == {s \in security :
                         s.username = f.username /\ s.passwordhash = f.password}
          IN  /\ \A d \in Clients \ {c} : session'[d] = session[d]
              /\ IF rows # {}
                   THEN /\ req'[r].resp = "redirect:/"
                        /\ AuthenticatedIn(session'[c])
                        /\ \E s \in rows : session'[c].userId = s.userid
                   ELSE /\ req'[r].resp = "render:login:invalid"
                        /\ session' = session
    ]_vars

\* C12 witness: a login bound the session to the second user, whose
\* password is also the password of the first
C12_Witness ==
  \E r \in Reqs :
    /\ IsDone(r, "login") /\ req[r].resp = "redirect:/"
    /\ session[req[r].client].userId = 2
    /\ \A s \in security : s.passwordhash = req[r].form.password
    /\ Cardinality(security) = 2

\* C13: a logout leaves its browser without an authenticated session; a
\* browser gets an authenticated session only by a successful login or an
\* auto-login registration of its own; and while no browser has one, every
\* request of a protected route is answered by the session check
C13_LogoutEndsSession ==
  [][ /\ \A c \in Clients :
           /\ (\E r \in Reqs : /\ req'[r] # req[r] /\ req'[r].op = "logout"
                               /\ req'[r].client = c)
                => ~AuthenticatedIn(session'[c])
           /\ (~Authenticated(c) /\ AuthenticatedIn(session'[c]))
                => \E r \in Reqs : /\ req'[r].client = c /\ req'[r].pc = "done"
                                   /\ req'[r].op \in {"login", "register"}
                                   /\ req'[r].resp = "redirect:/"
                                   /\ req'[r].uid = session'[c].userId
      /\ (\A c \in Clients : ~Authenticated(c))
           => \A r \in Reqs : AcceptsProtected(r) =>
                (req'[r].last = "auth" /\ req'[r].resp \in LoginViews)
    ]_vars

\* C13 witness: after a logout of a browser that had added an idea, its
\* request for the listing was answered with the login view
C13_Witness ==
  \E r \in Reqs :
    /\ req[r].op \in {"/ideas", "/view-ideas"} /\ req[r].last = "auth"
    /\ \A c \in Clients : ~Authenticated(c)
    /\ ideas # {}

\* C14: no two user rows share a username after any step, and a
\* registration for a username that is present when it is checked ends with
\* the duplicate-username message and leaves the user rows as they are
C14_UsernamesUnique ==
  [][ /\ \A s \in security', t \in security' : s.username = t.username => s = t
      /\ \A r \in Reqs :
           (/\ req[r].pc = "done" /\ req'[r] # req[r] /\ req'[r].op = "register"
            /\ UsersNamed(req'[r].form.username) # {}
            /\ (variant = "A" => ~MissingAccountField(req'[r].form)))
           => /\ req'[r].resp \in
                   {"render:register:exists", "render:createAccount:exists"}
              /\ security' = security
    ]_vars

\* C14 witness: two registrations for one username have both passed the
\* check; the insert of the second failed, and one row has the name
C14_Witness ==
  \E r \in Reqs, q \in Reqs :
    /\ r # q /\ IsDone(r, "register") /\ IsDone(q, "register")
    /\ req[r].form.username = req[q].form.username
    /\ req[r].last = "insert" /\ req[r].err
    /\ Cardinality(UsersNamed(req[r].form.username)) = 1

\* ---------------------------------------------------- mutation claims
\* C15 (as claimed): an addIdea request either inserts exactly one idea row,
\* owned by its user and with a name and a description that are not empty,
\* or it inserts nothing and renders the form again with the validation error
C15_CreateValidates ==
  [][ \A r \in Reqs :
        (req'[r] # req[r] /\ req'[r].op = "addIdea") =>
          IF ideas' = ideas
            THEN req'[r].resp = "render:addIdea"
            ELSE \E i \in ideas' \ ideas :
                   /\ ideas' = ideas \cup {i}
                   /\ i.userid = req'[r].uid
                   /\ Truthy(i.ideaname) /\ Truthy(i.ideadescription)
    ]_vars

\* the responses the error policy allows: a page rendered again, a redirect,
\* or the generic failure message of the listing
SafeResponses ==
  Redirects \cup
  {"render:addIdea", "render:viewIdeas", "render:editIdea", "send:500"}

\* C16 (as claimed): no request is left without a response by a query that
\* failed, and a request that ended in a catch branch ended with a page
\* rendered again or a redirect
C16_EveryFailureCaught ==
  \A r \in Reqs :
    /\ req[r].pc # "hung"
    /\ (req[r].pc = "done" /\ req[r].err) => req[r].resp \in SafeResponses

C18_OwnerNeverCollaborator ==
  \A c \in collaborations : ~OwnerIs(c.ideaid, c.userid)

\* C19 (as claimed): when the update of an editIdea request is written after
\* a removeCollaborator or a deleteIdea on the same idea has completed, it
\* changes the idea rows only if its user is the owner or a collaborator of
\* the idea in the state it is written in, and it never adds an idea row
C19_UpdateChecksAtWrite ==
  [][ \A r \in Reqs :
        (/\ req[r].op = "editIdea" /\ req[r].pc = "update" /\ req'[r].pc = "done"
         /\ \E q \in Reqs \ {r} :
              /\ req[q].pc = "done" /\ req[q].idea = req[r].idea
              /\ \/ req[q].op = "removeCollaborator" /\ req[q].last = "del"
                 \/ req[q].op = "deleteIdea" /\ req[q].last = "row") =>
          /\ ideas' # ideas => CanView(req[r].idea, req[r].uid)
          /\ {i.ideaid : i \in ideas'} = {i.ideaid : i \in ideas}
    ]_vars

====
